---- MODULE Spec2Model ----
(***************************************************************************)
(* A model of the sudoku solver of src/src/main.rs: the peer table, the    *)
(* candidate-set cell, the board codec, the propagation loop and the       *)
(* recursive search of try_solve, driven by one record of main.            *)
(*                                                                         *)
(* Representation.  A SudokuCell is a u16 bit set in which bit n-1 stands  *)
(* for the digit n; it is modelled as the set of the positions n of its    *)
(* set bits (a subset of 1..16).  Cells are numbered 0..80 as in the       *)
(* source, a board is a function on 0..80, and a string is a sequence of   *)
(* one-character strings.  The recursion of try_solve is an explicit stack *)
(* of the callers' frames.                                                 *)
(***************************************************************************)
EXTENDS Integers, Sequences, FiniteSets, TLC

\* ------------------------------------------------------------------ bounds
\* Inputs erase at most this many digit values from the solved grid.
MaxErased == 2
\* Inputs drop or append at most this many characters.
MaxEdit == 2

\* --------------------------------------------------------------- constants
NumCells == 81
NumPeers == 20
Side == 9
Block == 3
Cells == 0..(NumCells - 1)
Digits == 1..Side
\* trailing_zeros() of a zero u16
WordBits == 16

Min(S) == CHOOSE x \in S : \A y \in S : x <= y

\* ------------------------------------------------------------------- PEERS
\* The indices 0..8 in ascending order, as a `for i in 0..9` visits them.
Range9 == [k \in 1..Side |-> k - 1]

RowPeers(row, col) ==
    LET keep(i) == i # col
        is == SelectSeq(Range9, keep)
    IN  [k \in 1..Len(is) |-> Side * row + is[k]]

ColPeers(row, col) ==
    LET keep(i) == i # row
        is == SelectSeq(Range9, keep)
    IN  [k \in 1..Len(is) |-> Side * is[k] + col]

BlockPeers(row, col) ==
    LET r0 == (row \div Block) * Block
        c0 == (col \div Block) * Block
        rows == SelectSeq([k \in 1..Block |-> r0 + k - 1], LAMBDA r : r # row)
        cols == SelectSeq([k \in 1..Block |-> c0 + k - 1], LAMBDA c : c # col)
    IN  [k \in 1..(Len(rows) * Len(cols)) |->
            Side * rows[((k - 1) \div Len(cols)) + 1]
              + cols[((k - 1) % Len(cols)) + 1]]

PEERS ==
    [c \in Cells |->
        LET row == c \div Side
            col == c % Side
        IN  RowPeers(row, col) \o ColPeers(row, col) \o BlockPeers(row, col)]

\* -------------------------------------------------------------- SudokuCell
ALL_NUMS == Digits

new == {}
new_all_set == ALL_NUMS
set(cell, num) == cell \cup {num}
unset(cell, num) == cell \ {num}
clear(cell) == {}
get(cell, num) == num \in cell
size(cell) == Cardinality(cell)
get_first(cell) == IF cell = {} THEN WordBits + 1 ELSE Min(cell)

remove_all_xor(cell, other) == (cell \ other) \cup (other \ cell)
remove_all(cell, other) == cell \ other

\* ------------------------------------------------------------- BitIterator
\* BitIterator(bits, count): bits is the word still to scan, count the
\* number of bit positions already consumed.
iter(cell) == [bits |-> cell, count |-> 0]

ShiftRight(bits) == {n - 1 : n \in bits \ {1}}

RECURSIVE next_once(_)
next_once(it) ==
    IF it.bits = {}
    THEN [some |-> FALSE, val |-> 0, it |-> it]
    ELSE IF 1 \in it.bits
    THEN [some |-> TRUE, val |-> it.count + 1,
          it |-> [bits |-> {}, count |-> it.count + 1]]
    ELSE CHOOSE r \in {next_once(it2) :
                          it2 \in {[bits |-> {n - 1 : n \in it.bits \ {1}},
                                    count |-> it.count + 1]}} : TRUE

\* The iterator after one turn of the loop of next (lines 64-65).
Advance(it) == [bits |-> ShiftRight(it.bits), count |-> it.count + 1]

RECURSIVE next(_)
next(it) ==
    IF it.bits = {}
    THEN [some |-> FALSE, val |-> 0, it |-> it]
    ELSE IF 1 \in it.bits
    THEN [some |-> TRUE, val |-> it.count + 1, it |-> Advance(it)]
    ELSE CHOOSE r \in {next(it2) : it2 \in {Advance(it)}} : TRUE

\* ------------------------------------------------------------ try_solve
NoBoard == [i \in Cells |-> {}]
None == [some |-> FALSE, board |-> NoBoard]
Some(b) == [some |-> TRUE, board |-> b]

\* The digits already fixed among the peers of cell i (lines 148-157).
PeerValuesRowCol(b, i) ==
    {get_first(b[PEERS[i][k]]) :
        k \in {k \in 1..(2 * (Side - 1)) : size(b[PEERS[i][k]]) = 1}}
PeerValues(b, i) ==
    {get_first(b[PEERS[i][k]]) :
        k \in {k \in 1..NumPeers : size(b[PEERS[i][k]]) = 1}}

\* The body of `for i in 0..81` for cell i (lines 143-166).  st is the state
\* of the pass: whether it has returned None, the board and the two flags.
\* Once the pass has returned None no further cell is visited.
PassCellNoProgress(st, i) ==
    IF st.conflict \/ size(st.board[i]) = 1
    THEN st
    ELSE LET peer_values ==
                 {get_first(st.board[PEERS[i][k]]) :
                    k \in {k \in 1..NumPeers : size(st.board[PEERS[i][k]]) = 1}}
             cell == st.board[i] \ peer_values
             b2 == [st.board EXCEPT ![i] = cell]
         IN  IF size(cell) = 0
             THEN [st EXCEPT !.conflict = TRUE, !.board = b2]
             ELSE IF size(cell) = 1
             THEN [st EXCEPT !.board = b2]
             ELSE [st EXCEPT !.board = b2, !.solved = FALSE]
PassCell(st, i) ==
    IF st.conflict \/ size(st.board[i]) = 1
    THEN st
    ELSE LET peer_values == PeerValues(st.board, i)
             cell == remove_all(st.board[i], peer_values)
             b2 == [st.board EXCEPT ![i] = cell]
         IN  IF size(cell) = 0
             THEN [st EXCEPT !.conflict = TRUE, !.board = b2]
             ELSE IF size(cell) = 1
             THEN [st EXCEPT !.board = b2, !.made_progress = TRUE]
             ELSE [st EXCEPT !.board = b2, !.solved = FALSE]

\* The cells lo..hi in ascending order.  The state after the first half is
\* bound as a value, so that it is evaluated once.
RECURSIVE PassRange(_, _, _)
PassRange(st, lo, hi) ==
    IF lo = hi THEN PassCell(st, lo)
    ELSE LET mid == (lo + hi) \div 2
         IN  CHOOSE r \in {PassRange(left, mid + 1, hi) :
                              left \in {PassRange(st, lo, mid)}} : TRUE

\* One iteration of `while made_progress` (lines 140-167).
Pass(b) ==
    PassRange([conflict |-> FALSE, board |-> b,
               made_progress |-> FALSE, solved |-> TRUE], 0, NumCells - 1)

\* The body of the loop that finds the cell with the least number of
\* possibilities (lines 179-182).
SelectStepLast(st, b, i) ==
    IF size(b[i]) > 1 /\ size(b[i]) <= st.smallest_count
    THEN [smallest_cell |-> i, smallest_count |-> size(b[i])]
    ELSE st
SelectStep(st, b, i) ==
    IF size(b[i]) > 1 /\ size(b[i]) < st.smallest_count
    THEN [smallest_cell |-> i, smallest_count |-> size(b[i])]
    ELSE st

\* The cells lo..hi in ascending order.
RECURSIVE SelectRange(_, _, _, _)
SelectRange(st, b, lo, hi) ==
    IF lo = hi THEN SelectStep(st, b, lo)
    ELSE LET mid == (lo + hi) \div 2
         IN  CHOOSE r \in {SelectRange(left, b, mid + 1, hi) :
                              left \in {SelectRange(st, b, lo, mid)}} : TRUE

\* Lines 176-183.
SelectCell(b) ==
    SelectRange([smallest_cell |-> 0, smallest_count |-> Side],
                b, 0, NumCells - 1).smallest_cell

\* board2: the clone with the chosen cell set to the value tried (187-190).
TrialBoardNoClear(b, cell, val) == [b EXCEPT ![cell] = set(b[cell], val)]
TrialBoardUnfixed(b, cell, val) == b
TrialBoard(b, cell, val) == [b EXCEPT ![cell] = set(clear(b[cell]), val)]

\* ---------------------------------------------------------------- codec
DigitChars == <<"0", "1", "2", "3", "4", "5", "6", "7", "8", "9">>
EmptyChars == {"0", "."}
GivenChars == {DigitChars[d + 1] : d \in Digits}

\* char::to_digit(10) of a character of "123456789"
to_digit(c) == CHOOSE d \in Digits : DigitChars[d + 1] = c
\* char::from_digit(val, 10).unwrap(); "!" stands for the panic of unwrap
from_digit(val) == IF val < 10 THEN DigitChars[val + 1] ELSE "!"

\* The body of `for c in s.chars()` (lines 209-220).
LoadChar(st, c) ==
    IF c \in EmptyChars
    THEN [cells |-> Append(st.cells, new_all_set), i |-> st.i + 1]
    ELSE IF c \in GivenChars
    THEN [cells |-> Append(st.cells, set(new, to_digit(c))), i |-> st.i + 1]
    ELSE st

\* The characters lo..hi of s in order.
RECURSIVE LoadRange(_, _, _, _)
LoadRange(st, s, lo, hi) ==
    IF lo > hi THEN st
    ELSE IF lo = hi THEN LoadChar(st, s[lo])
    ELSE LET mid == (lo + hi) \div 2
         IN  CHOOSE r \in {LoadRange(left, s, mid + 1, hi) :
                              left \in {LoadRange(st, s, lo, mid)}} : TRUE

AsBoard(cells) == [c \in Cells |-> cells[c + 1]]

\* load_board (lines 203-229): panics unless exactly 81 cells were pushed.
load_board_at_least(s) ==
    CHOOSE b \in {IF r.i < NumCells
                  THEN [panic |-> TRUE, board |-> NoBoard]
                  ELSE [panic |-> FALSE, board |-> AsBoard(r.cells)] :
                  r \in {LoadRange([cells |-> <<>>, i |-> 0], s, 1, Len(s))}} :
        TRUE
load_board(s) ==
    CHOOSE b \in {IF r.i # NumCells
                  THEN [panic |-> TRUE, board |-> NoBoard]
                  ELSE [panic |-> FALSE, board |-> AsBoard(r.cells)] :
                  r \in {LoadRange([cells |-> <<>>, i |-> 0], s, 1, Len(s))}} :
        TRUE

\* serialize_board (lines 231-238)
serialize_board(b) == [k \in 1..NumCells |-> from_digit(get_first(b[k - 1]))]

\* --------------------------------------------------------------- inputs
\* The solution of the classic puzzle, the classic puzzle, and a puzzle with
\* 21 of the classic givens that still has that one solution and on which
\* propagation alone stalls.
ClassicSolution ==
    <<5, 3, 4, 6, 7, 8, 9, 1, 2,
      6, 7, 2, 1, 9, 5, 3, 4, 8,
      1, 9, 8, 3, 4, 2, 5, 6, 7,
      8, 5, 9, 7, 6, 1, 4, 2, 3,
      4, 2, 6, 8, 5, 3, 7, 9, 1,
      7, 1, 3, 9, 2, 4, 8, 5, 6,
      9, 6, 1, 5, 3, 7, 2, 8, 4,
      2, 8, 7, 4, 1, 9, 6, 3, 5,
      3, 4, 5, 2, 8, 6, 1, 7, 9>>
ClassicPuzzle ==
    <<5, 3, 0, 0, 7, 0, 0, 0, 0,
      6, 0, 0, 1, 9, 5, 0, 0, 0,
      0, 9, 8, 0, 0, 0, 0, 6, 0,
      8, 0, 0, 0, 6, 0, 0, 0, 3,
      4, 0, 0, 8, 0, 3, 0, 0, 1,
      7, 0, 0, 0, 2, 0, 0, 0, 6,
      0, 6, 0, 0, 0, 0, 2, 8, 0,
      0, 0, 0, 4, 1, 9, 0, 0, 5,
      0, 0, 0, 0, 8, 0, 0, 7, 9>>
HardPuzzle ==
    <<0, 3, 0, 0, 7, 0, 0, 0, 0,
      0, 0, 0, 1, 0, 5, 0, 0, 0,
      0, 9, 8, 0, 0, 0, 0, 6, 0,
      8, 0, 0, 0, 6, 0, 0, 0, 0,
      4, 0, 0, 0, 0, 3, 0, 0, 1,
      0, 0, 0, 0, 2, 0, 0, 0, 0,
      0, 6, 0, 0, 0, 0, 2, 8, 0,
      0, 0, 0, 4, 1, 9, 0, 0, 5,
      0, 0, 0, 0, 0, 0, 0, 7, 0>>
AllUnknown == [k \in 1..NumCells |-> 0]

Erase(g, D) == [k \in 1..NumCells |-> IF g[k] \in D THEN 0 ELSE g[k]]
\* The grid with its second cell overwritten by the digit of the first cell
\* of the solution, which puts two equal givens in a row when both are given.
Clash(g) == [g EXCEPT ![2] = ClassicSolution[1]]

GridString(g, blank) ==
    [k \in 1..NumCells |-> IF g[k] = 0 THEN blank ELSE DigitChars[g[k] + 1]]

ErasedSets == {D \in SUBSET Digits : Cardinality(D) <= MaxErased}
ErasedGrids == {Erase(ClassicSolution, D) : D \in ErasedSets}
\* The grid g and, besides, the cells of the solution that hold a digit of D.
Reveal(g, D) ==
    [k \in 1..NumCells |->
        IF ClassicSolution[k] \in D THEN ClassicSolution[k] ELSE g[k]]
RevealedGrids == {Reveal(HardPuzzle, D) : D \in ErasedSets}
Grids == ErasedGrids \cup {Clash(g) : g \in ErasedGrids} \cup RevealedGrids
            \cup {ClassicPuzzle, HardPuzzle, AllUnknown}

\* Rows separated by a character the scan ignores.
RECURSIVE WithSeparators(_, _)
WithSeparators(s, sep) ==
    IF Len(s) <= Side THEN s
    ELSE SubSeq(s, 1, Side) \o <<sep>>
            \o WithSeparators(SubSeq(s, Side + 1, Len(s)), sep)

EditBases == {GridString(ClassicPuzzle, "0"), GridString(AllUnknown, ".")}
Edits(s) ==
    {SubSeq(s, 1, Len(s) - k) : k \in 1..MaxEdit}
      \cup {s \o SubSeq(s, 1, k) : k \in 1..MaxEdit}
      \cup {[s EXCEPT ![k] = "x"] : k \in 1..MaxEdit}
      \cup {WithSeparators(s, "\n"), WithSeparators(s, " ")}

PuzzleStrings ==
    {GridString(g, ".") : g \in Grids}
      \cup EditBases
      \cup UNION {Edits(s) : s \in EditBases}

\* A record of the input file: the puzzle and the expected answer.
Records ==
    {[puzzle |-> s, answer |-> GridString(ClassicSolution, "0")] :
        s \in PuzzleStrings}

\* ---------------------------------------------------------------- state
VARIABLES record, pc, board, made_progress, solved, smallest_cell, it,
          stack, ret, num_boards, num_failed

vars == <<record, pc, board, made_progress, solved, smallest_cell, it,
          stack, ret, num_boards, num_failed>>

Init ==
    /\ record \in Records
    /\ pc = "load"
    /\ board = NoBoard
    /\ made_progress = FALSE
    /\ solved = FALSE
    /\ smallest_cell = 0
    /\ it = iter(new)
    /\ stack = <<>>
    /\ ret = None
    /\ num_boards = 0
    /\ num_failed = 0

\* main, line 268: load_board(record.get(0)); a panic ends the process.
LoadBoard ==
    /\ pc = "load"
    /\ \E r \in {load_board(record.puzzle)} :
           /\ pc' = IF r.panic THEN "panic" ELSE "call"
           /\ board' = r.board
    /\ UNCHANGED <<record, made_progress, solved, smallest_cell, it, stack,
                   ret, num_boards, num_failed>>

\* try_solve entry, lines 132-138.
Enter ==
    /\ pc = "call"
    /\ made_progress' = TRUE
    /\ solved' = FALSE
    /\ pc' = "loop"
    /\ UNCHANGED <<record, board, smallest_cell, it, stack, ret,
                   num_boards, num_failed>>

\* One iteration of the propagation loop, lines 139-168.
Propagate ==
    /\ pc = "loop"
    /\ made_progress
    /\ \E r \in {Pass(board)} :
           /\ board' = r.board
           /\ made_progress' = r.made_progress
           /\ solved' = r.solved
           /\ IF r.conflict
              THEN pc' = "ret" /\ ret' = None
              ELSE pc' = "loop" /\ ret' = ret
    /\ UNCHANGED <<record, smallest_cell, it, stack, num_boards, num_failed>>

\* The loop has ended and the board is solved, lines 170-171.
ReturnSolved ==
    /\ pc = "loop"
    /\ ~made_progress
    /\ solved
    /\ ret' = Some(board)
    /\ pc' = "ret"
    /\ UNCHANGED <<record, board, made_progress, solved, smallest_cell, it,
                   stack, num_boards, num_failed>>

\* The loop has ended and the board is not solved: choose the cell to
\* search on and start the iteration over its values, lines 175-186.
Select ==
    /\ pc = "loop"
    /\ ~made_progress
    /\ ~solved
    /\ \E cell \in {SelectCell(board)} :
           /\ smallest_cell' = cell
           /\ it' = iter(board[cell])
    /\ pc' = "trial"
    /\ UNCHANGED <<record, board, made_progress, solved, stack, ret,
                   num_boards, num_failed>>

\* The next value of the chosen cell is tried on a clone, lines 186-193.
Trial ==
    /\ pc = "trial"
    /\ \E n \in {next(it)} :
           /\ n.some
           /\ stack' = Append(stack, [board |-> board,
                                      smallest_cell |-> smallest_cell,
                                      it |-> n.it])
           /\ board' = TrialBoard(board, smallest_cell, n.val)
           /\ it' = n.it
    /\ pc' = "call"
    /\ UNCHANGED <<record, made_progress, solved, smallest_cell, ret,
                   num_boards, num_failed>>

\* Every value has been tried, line 199.
Exhausted ==
    /\ pc = "trial"
    /\ \E n \in {next(it)} :
           /\ ~n.some
           /\ it' = n.it
    /\ ret' = None
    /\ pc' = "ret"
    /\ UNCHANGED <<record, board, made_progress, solved, smallest_cell,
                   stack, num_boards, num_failed>>

\* A recursive call returned Some: the caller returns it, lines 193-196.
ReturnFound ==
    /\ pc = "ret"
    /\ stack # <<>>
    /\ ret.some
    /\ stack' = SubSeq(stack, 1, Len(stack) - 1)
    /\ UNCHANGED <<record, pc, board, made_progress, solved, smallest_cell,
                   it, ret, num_boards, num_failed>>

\* A recursive call returned None: the caller goes on with the next value.
\* The caller's flags are those it left the loop with.
Backtrack ==
    /\ pc = "ret"
    /\ stack # <<>>
    /\ ~ret.some
    /\ \E f \in {stack[Len(stack)]} :
           /\ board' = f.board
           /\ smallest_cell' = f.smallest_cell
           /\ it' = f.it
    /\ made_progress' = FALSE
    /\ solved' = FALSE
    /\ stack' = SubSeq(stack, 1, Len(stack) - 1)
    /\ pc' = "trial"
    /\ UNCHANGED <<record, ret, num_boards, num_failed>>

\* main, lines 276-286: the outermost call returned; count the record.
Verify ==
    /\ pc = "ret"
    /\ stack = <<>>
    /\ num_failed' =
          IF ~ret.some THEN num_failed + 1
          ELSE IF serialize_board(ret.board) # record.answer
          THEN num_failed + 1
          ELSE num_failed
    /\ num_boards' = num_boards + 1
    /\ pc' = "done"
    /\ UNCHANGED <<record, board, made_progress, solved, smallest_cell, it,
                   stack, ret>>

Next ==
    \/ LoadBoard
    \/ Enter
    \/ Propagate
    \/ ReturnSolved
    \/ Select
    \/ Trial
    \/ Exhausted
    \/ ReturnFound
    \/ Backtrack
    \/ Verify

Spec == Init /\ [][Next]_vars

\* The solve runs to completion: no step that is possible is put off forever.
FairSpec == Spec /\ WF_vars(Next)

\* ------------------------------------------------------------ properties
\* Two different cells in the same row, column or 3x3 block.
SameUnit(i, j) ==
    /\ i # j
    /\ \/ i \div Side = j \div Side
       \/ i % Side = j % Side
       \/ /\ (i \div Side) \div Block = (j \div Side) \div Block
          /\ (i % Side) \div Block = (j % Side) \div Block

AllFixed(b) == \A i \in Cells : size(b[i]) = 1
NoClash(b) ==
    \A i, j \in Cells :
        SameUnit(i, j) /\ size(b[i]) = 1 /\ size(b[j]) = 1 => b[i] # b[j]
FixedCount(b) == Cardinality({i \in Cells : size(b[i]) = 1})
Within(b, c) == \A i \in Cells : b[i] \subseteq c[i]

\* The characters of the puzzle that stand for a cell, in order.
Recognized(s) == SelectSeq(s, LAMBDA c : c \in EmptyChars \cup GivenChars)
Loaded == pc \notin {"load", "panic"}
\* The board passed to the outermost try_solve.
Orig == load_board(record.puzzle).board
\* A valid completed grid is known for the board.
KnownGrids == {ClassicSolution}
ValidGrid(g) ==
    /\ \A k \in 1..NumCells : g[k] \in Digits
    /\ \A i, j \in Cells : SameUnit(i, j) => g[i + 1] # g[j + 1]
Admits(b, g) == \A i \in Cells : g[i + 1] \in b[i]
\* The givens contain those of HardPuzzle and agree with its one solution.
UniqueGivens(b) ==
    /\ Admits(b, ClassicSolution)
    /\ \A i \in Cells : HardPuzzle[i + 1] # 0 => b[i] = {HardPuzzle[i + 1]}

\* C1: every board try_solve returns as solved has exactly one candidate in
\* each of the 81 cells and no two peer cells with the same digit.
C1_SolvedBoardsAreValid ==
    ret.some => AllFixed(ret.board) /\ NoClash(ret.board)

\* C2: a puzzle with no unknown cell in which two peer cells hold the same
\* digit is reported unsolvable.
C2_ClashingFullGridRejected ==
    pc = "done" /\ AllFixed(Orig) /\ ~NoClash(Orig) => ~ret.some

\* C3: a puzzle with exactly one valid completed grid is solved to exactly
\* that grid, and main counts no failure for it.
C3_UniquePuzzleSolved ==
    pc = "done" /\ UniqueGivens(Orig) =>
        /\ ret.some
        /\ serialize_board(ret.board) = GridString(ClassicSolution, "0")
        /\ num_failed = 0
C3_Witness ==
    /\ pc = "done"
    /\ UniqueGivens(Orig)
    /\ record.puzzle = GridString(HardPuzzle, ".")
    /\ ret.some

\* C4: a board for which some valid completed grid exists is never reported
\* unsolvable: it is solved to a valid grid; so is the all-unknown board.
C4_CompletableBoardSolved ==
    pc = "done" /\ (\E g \in KnownGrids : ValidGrid(g) /\ Admits(Orig, g)) =>
        /\ ret.some
        /\ AllFixed(ret.board)
        /\ NoClash(ret.board)
        /\ Within(ret.board, Orig)
C4_Witness ==
    /\ pc = "done"
    /\ \A i \in Cells : Orig[i] = Digits
    /\ ret.some
    /\ num_failed = 1

\* C5: every call of try_solve ends; each recursive call gets a board with
\* strictly more fixed cells than the board its caller stalled on, and the
\* recursion is never deeper than 81.
C5_Terminates ==
    /\ <>(pc \in {"done", "panic"})
    /\ [](Len(stack) <= NumCells)
    /\ [][pc = "trial" /\ pc' = "call" =>
            FixedCount(board') > FixedCount(board)]_vars
C5_Witness ==
    /\ pc = "call"
    /\ Len(stack) >= 40
    /\ FixedCount(board) > FixedCount(stack[Len(stack)].board)

\* C6: load_board returns a board exactly when the string has 81 recognized
\* characters, and the board holds one cell per recognized character.
C6_LoadNeedsExactly81 ==
    /\ pc = "panic" <=>
          pc # "load" /\ Len(Recognized(record.puzzle)) # NumCells
    /\ pc = "call" /\ stack = <<>> =>
          \A i \in Cells :
              LET c == Recognized(record.puzzle)[i + 1]
              IN  board[i] = IF c \in EmptyChars THEN Digits
                             ELSE {to_digit(c)}
C6_Witness ==
    /\ pc = "panic"
    /\ Len(record.puzzle) = NumCells
    /\ Len(Recognized(record.puzzle)) < NumCells

\* C7: when the propagation loop ends without a contradiction, no
\* undetermined cell holds a digit fixed in one of its peers, and one more
\* pass changes nothing and reports no progress.
C7_StableAtLoopExit ==
    pc = "loop" /\ ~made_progress =>
        /\ \A i, j \in Cells :
              SameUnit(i, j) /\ size(board[i]) # 1 /\ size(board[j]) = 1
                  => board[i] \cap board[j] = {}
        /\ Pass(board) = [conflict |-> FALSE, board |-> board,
                          made_progress |-> FALSE, solved |-> solved]
C7_Witness ==
    /\ pc = "loop"
    /\ ~made_progress
    /\ ~solved
    /\ board # Orig

\* C8: the cell searched on has more than one candidate, has the fewest
\* candidates among such cells, and is the first such cell in row-major
\* order, also when every undetermined cell has all nine candidates.
C8_SelectsFirstSmallest ==
    pc = "trial" =>
        /\ size(board[smallest_cell]) > 1
        /\ \A j \in Cells :
              size(board[j]) > 1 =>
                  \/ size(board[smallest_cell]) < size(board[j])
                  \/ /\ size(board[smallest_cell]) = size(board[j])
                     /\ smallest_cell <= j
C8_Witness ==
    /\ pc = "trial"
    /\ \A j \in Cells : size(board[j]) = Side
    /\ smallest_cell = 0

\* C9: the values of the chosen cell are tried in ascending order, each on a
\* copy of the stalled board that differs only in the chosen cell being
\* fixed to the value; a solved trial is returned without another trial, and
\* None is returned only when every value has been tried.
C9_TrialStep ==
    pc = "trial" /\ pc' = "call" =>
        LET c == smallest_cell
            tried == {d \in board[c] : d <= it.count}
        IN  /\ \E val \in board[c] \ tried :
                  /\ \A d \in board[c] \ tried : val <= d
                  /\ board'[c] = {val}
                  /\ it'.count = val
            /\ \A j \in Cells \ {c} : board'[j] = board[j]
            /\ stack' = Append(stack, [board |-> board, smallest_cell |-> c,
                                       it |-> it'])
C9_FirstSuccessWins ==
    pc = "ret" /\ ret.some => pc' \in {"ret", "done"} /\ ret' = ret
C9_NoneAfterAllTried ==
    pc = "trial" /\ pc' = "ret" =>
        /\ ~ret'.some
        /\ \A d \in board[smallest_cell] : d <= it.count
C9_RetryAfterNone ==
    pc = "ret" /\ pc' = "trial" =>
        /\ ~ret.some
        /\ board' = stack[Len(stack)].board
        /\ it' = stack[Len(stack)].it
        /\ board[smallest_cell'] = {it'.count}
C9_AscendingFirstSuccess ==
    [][/\ C9_TrialStep
       /\ C9_FirstSuccessWins
       /\ C9_NoneAfterAllTried
       /\ C9_RetryAfterNone]_vars
C9_Witness ==
    /\ pc = "trial"
    /\ it.count > 0
    /\ next(it).some
    /\ stack # <<>>

\* C10: during a solve every candidate set is a subset of the cell's set in
\* the board first passed to try_solve (for a recursive call, of the board
\* its caller stalled on as well), no propagation pass or trial adds a
\* candidate, propagation never changes a cell with one candidate, and a
\* returned board keeps every given digit.
C10_Within ==
    Loaded =>
        /\ Within(board, Orig)
        /\ \A k \in 1..Len(stack) :
              /\ Within(stack[k].board, Orig)
              /\ k < Len(stack) => Within(stack[k + 1].board, stack[k].board)
        /\ stack # <<>> /\ pc \in {"call", "loop"} =>
              Within(board, stack[Len(stack)].board)
        /\ ret.some =>
              \A i \in Cells :
                  /\ ret.board[i] \subseteq Orig[i]
                  /\ size(Orig[i]) = 1 => ret.board[i] = Orig[i]
C10_FixedCellsKept ==
    /\ pc = "loop" =>
          /\ Within(board', board)
          /\ \A i \in Cells : size(board[i]) = 1 => board'[i] = board[i]
    /\ pc = "trial" /\ pc' = "call" => Within(board', board)
C10_CandidatesNeverGrow ==
    /\ []C10_Within
    /\ [][C10_FixedCellsKept]_vars
C10_Witness ==
    /\ pc = "ret"
    /\ ret.some
    /\ stack # <<>>
    /\ \E i \in Cells : size(Orig[i]) = 1
    /\ \E i \in Cells : size(Orig[i]) > 1
====
